---------------------------- MODULE Spec2Model ----------------------------
(***************************************************************************)
(* A model of hvc/audio.py: make_spect, segment_song and extract_syls.     *)
(*                                                                         *)
(* Conventions.                                                            *)
(*  - Python sequences are TLA+ sequences; Python indices are 0-based, so  *)
(*    index k of the code is element k+1 of the sequence.                  *)
(*  - Times are integers.  In segment_song a time is a number of time      *)
(*    units; in extract_syls every time is held in milliseconds, that is   *)
(*    the code's value in seconds times 1000 (the comparison of            *)
(*    |time_bins - onset| is unchanged by the common factor).              *)
(*  - A spectrogram power is a power of ten and log10 is its exponent.     *)
(*  - Each function has its own specification: SpecMakeSpect,              *)
(*    SpecSegment, SpecExtract.  pc is the position inside the function.   *)
(***************************************************************************)
EXTENDS Integers, Sequences, FiniteSets, TLC

VARIABLES
    pc,                 \* position in the function under execution
    \* ---- make_spect
    sampfreq,           \* sampling frequency argument
    size,               \* FFT window size argument
    step,               \* window step argument
    wave_len,           \* number of samples of the waveform
    freq_cutoffs,       \* <<low, high>>
    psd,                \* the power grid scipy.signal.spectrogram returned
    freq_bins,          \* local freq_bins
    spect,              \* local spect (rows of columns); in extract_syls the
                        \* spectrogram, each column held as its column index
    \* ---- segment_song
    amp,
    time_bins,
    min_syl_dur,
    min_silent_dur,
    onsets,
    offsets,
    \* ---- extract_syls
    fs,                 \* sampling frequency load_cbin reports
    samp_freq,          \* spect_params['samp_freq']
    labels_to_use,
    syl_spect_width,
    labels,             \* notmat['labels']
    onsets_time_bins,
    offsets_time_bins,
    ind,                \* loop index of "for ind,label in enumerate(labels)"
    all_syl_labels,
    all_syl_spects,
    calls               \* the collaborators called so far, in order

vars == << pc, sampfreq, size, step, wave_len, freq_cutoffs, psd, freq_bins,
           spect, amp, time_bins, min_syl_dur, min_silent_dur, onsets, offsets,
           fs, samp_freq, labels_to_use, syl_spect_width, labels,
           onsets_time_bins, offsets_time_bins, ind, all_syl_labels,
           all_syl_spects, calls >>

msVars  == << sampfreq, size, step, wave_len, freq_cutoffs, psd, freq_bins >>
segVars == << amp, min_syl_dur, min_silent_dur >>
esVars  == << fs, samp_freq, labels_to_use, syl_spect_width, labels,
              onsets_time_bins, offsets_time_bins, ind, all_syl_labels,
              all_syl_spects, calls >>

(***************************************************************************)
(* Bounds of the model.                                                    *)
(***************************************************************************)
MaxBins == 6        \* longest amplitude sequence given to segment_song
MaxDur == 2         \* largest min_syl_dur / min_silent_dur
MaxCutoff == 5      \* largest frequency cutoff given to make_spect
MaxCols == 4        \* most columns of the spectrogram in extract_syls
MaxWidth == 5       \* largest syl_spect_width
MaxSyls == 3        \* most labelled segments in a .not.mat file

(***************************************************************************)
(* Python / numpy helpers.                                                 *)
(***************************************************************************)
None == "None"

Abs(x) == IF x < 0 THEN -x ELSE x

RECURSIVE SumTo(_, _)
\* f[1] + ... + f[n]
SumTo(f, n) == IF n = 0 THEN 0 ELSE f[n] + SumTo(f, n - 1)

\* np.flipud on a sequence of rows (or on a 1-d array)
Flipud(s) == [i \in 1..Len(s) |-> s[Len(s) + 1 - i]]

\* a[idx] for an array of 0-based indices idx (numpy fancy indexing)
TakeIdx(a, idx) == [i \in 1..Len(idx) |-> a[idx[i] + 1]]

\* fancy indexing raises IndexError when an index is outside 0..len-1
IdxInRange(a, idx) == \A i \in 1..Len(idx) : idx[i] >= 0 /\ idx[i] < Len(a)

RECURSIVE NonzeroFrom(_, _)
\* the 0-based indices k >= from-1 with b[k] true, ascending: np.nonzero(b)[0]
NonzeroFrom(b, from) ==
    IF from > Len(b) THEN << >>
    ELSE IF b[from] THEN << from - 1 >> \o NonzeroFrom(b, from + 1)
         ELSE NonzeroFrom(b, from + 1)

Nonzero(b) == NonzeroFrom(b, 1)


(***************************************************************************)
(* Values of the variables a function does not use.                        *)
(***************************************************************************)
MsIdle ==
    /\ sampfreq = 0 /\ size = 0 /\ step = 0 /\ wave_len = 0
    /\ freq_cutoffs = << 0, 0 >> /\ psd = << >> /\ freq_bins = << >>

SegIdle ==
    /\ amp = << >> /\ min_syl_dur = 0 /\ min_silent_dur = 0

EsIdle ==
    /\ fs = 0 /\ samp_freq = 0 /\ labels_to_use = << >>
    /\ syl_spect_width = 0 /\ labels = << >>
    /\ onsets_time_bins = << >> /\ offsets_time_bins = << >> /\ ind = 0
    /\ all_syl_labels = << >> /\ all_syl_spects = << >> /\ calls = << >>

(***************************************************************************)
(* make_spect                                                              *)
(***************************************************************************)
Sizes == {2, 4}             \* FFT window sizes tried
SampFreqsMs == {4, 8}       \* sampling frequencies tried (multiples of the sizes)
Powers == {1, 10}           \* power spectral densities, all positive

\* np.log10 on the powers of ten
Log10(x) == CASE x = 1 -> 0 [] x = 10 -> 1 [] x = 100 -> 2

\* the frequency axis scipy.signal.spectrogram returns (one-sided):
\* k * fs / nperseg for k = 0 .. nperseg/2, ascending
RfftFreq(n, sf) == [i \in 1..((n \div 2) + 1) |-> ((i - 1) * sf) \div n]

\* the number of columns scipy.signal.spectrogram returns
NumFrames(n, nperseg, noverlap) == (n - noverlap) \div (nperseg - noverlap)

\* lines 56-57: the indices of the frequencies inside the cutoffs
FInds(fb, cut) == Nonzero([i \in 1..Len(fb) |-> fb[i] >= cut[1] /\ fb[i] < cut[2]])

InitMakeSpect ==
    /\ pc = "ms_spectrogram"
    /\ size \in Sizes
    /\ sampfreq \in SampFreqsMs
    /\ step \in {size \div 2, size}
    /\ wave_len \in {size, 2 * size}
    /\ \E lo \in 0..MaxCutoff, hi \in 0..MaxCutoff :
          lo < hi /\ freq_cutoffs = << lo, hi >>
    /\ psd = << >> /\ freq_bins = << >> /\ spect = << >>
    /\ time_bins = << >> /\ onsets = << >> /\ offsets = << >>
    /\ SegIdle /\ EsIdle

\* lines 47-53: the short-time Fourier step
MS_Spectrogram ==
    /\ pc = "ms_spectrogram"
    /\ LET fft_overlap == size - step
           nrows == Len(RfftFreq(size, sampfreq))
           ncols == NumFrames(wave_len, size, fft_overlap)
       IN  /\ psd' \in [1..nrows -> [1..ncols -> Powers]]
           /\ freq_bins' = RfftFreq(size, sampfreq)
           /\ time_bins' = [j \in 1..ncols |-> (size \div 2) + (j - 1) * step]
    /\ spect' = psd'
    /\ pc' = "ms_cutoff"
    /\ UNCHANGED << sampfreq, size, step, wave_len, freq_cutoffs, onsets,
                    offsets >>
    /\ UNCHANGED segVars /\ UNCHANGED esVars

\* lines 56-59: keep the rows inside the cutoffs
MS_Cutoff ==
    /\ pc = "ms_cutoff"
    /\ LET f_inds == FInds(freq_bins, freq_cutoffs)
       IN  /\ freq_bins' = TakeIdx(freq_bins, f_inds)
           /\ spect' = TakeIdx(spect, f_inds)
    /\ pc' = "ms_log"
    /\ UNCHANGED << sampfreq, size, step, wave_len, freq_cutoffs, psd,
                    time_bins, onsets, offsets >>
    /\ UNCHANGED segVars /\ UNCHANGED esVars

\* line 60: log transform
MS_Log ==
    /\ pc = "ms_log"
    /\ spect' = [r \in 1..Len(spect) |->
                    [c \in 1..Len(spect[r]) |-> Log10(spect[r][c])]]
    /\ pc' = "ms_flip"
    /\ UNCHANGED << sampfreq, size, step, wave_len, freq_cutoffs, psd,
                    freq_bins, time_bins, onsets, offsets >>
    /\ UNCHANGED segVars /\ UNCHANGED esVars

\* lines 63-66: flip both and return the song_spect object
MS_Flip ==
    /\ pc = "ms_flip"
    /\ spect' = Flipud(spect)
    /\ freq_bins' = Flipud(freq_bins)
    /\ pc' = "ms_done"
    /\ UNCHANGED << sampfreq, size, step, wave_len, freq_cutoffs, psd,
                    time_bins, onsets, offsets >>
    /\ UNCHANGED segVars /\ UNCHANGED esVars

NextMakeSpect == MS_Spectrogram \/ MS_Cutoff \/ MS_Log \/ MS_Flip

SpecMakeSpect == InitMakeSpect /\ [][NextMakeSpect]_vars

(***************************************************************************)
(* segment_song                                                            *)
(***************************************************************************)
threshold == 5000           \* the default of the threshold argument
AmpVals == {0, 6000}        \* amplitudes below and above the threshold
BinSteps == {1, 2}          \* distances between consecutive time bins

\* line 96: amp > threshold, as numpy's booleans 0 and 1
AboveTh(a, th) == [i \in 1..Len(a) |-> IF a[i] > th THEN 1 ELSE 0]

\* line 98: np.convolve(h, v), mode 'full': Len(h)+Len(v)-1 values,
\* value k (0-based) is the sum of h[j] * v[k-j] over the j with both in range
Convolve(h, v) ==
    [k1 \in 1..(Len(h) + Len(v) - 1) |->
        LET k == k1 - 1
            term == [j1 \in 1..Len(h) |->
                        LET j == j1 - 1
                        IN  IF k - j >= 0 /\ k - j < Len(v)
                            THEN h[j1] * v[k - j + 1] ELSE 0]
        IN  SumTo(term, Len(h))]

\* lines 97-98
AboveThConvoluted(a, th) == Convolve(<< 1, -1 >>, AboveTh(a, th))

\* line 100: the indices the onsets are read at
OnsetInds(a, th) ==
    LET c == AboveThConvoluted(a, th)
    IN  Nonzero([k \in 1..Len(c) |-> c[k] > 0])

\* line 102: the indices the offsets are read at
OffsetInds(a, th) ==
    LET c == AboveThConvoluted(a, th)
    IN  Nonzero([k \in 1..Len(c) |-> c[k] < 0])

\* line 105: onsets[1:] - offsets[:-1]
SilentGapDurs(on, off) ==
    [i \in 1..(IF Len(on) = 0 THEN 0 ELSE Len(on) - 1) |-> on[i + 1] - off[i]]

\* KeepGaps with a gap equal to min_silent_dur kept too
KeepGapsAtLeast(on, off, msd) ==
    LET g == SilentGapDurs(on, off)
    IN  Nonzero([i \in 1..Len(g) |-> g[i] >= msd])

\* line 106
KeepGaps(on, off, msd) ==
    LET g == SilentGapDurs(on, off)
    IN  Nonzero([i \in 1..Len(g) |-> g[i] > msd])

\* KeepDurs with a duration equal to min_syl_dur kept too
KeepDursAtLeast(on, off, msd) ==
    Nonzero([i \in 1..Len(on) |-> off[i] - on[i] >= msd])

\* lines 111-112
KeepDurs(on, off, msd) ==
    Nonzero([i \in 1..Len(on) |-> off[i] - on[i] > msd])

RECURSIVE CumSum(_, _)
\* the first n running sums of the steps st, starting at 0
CumSum(st, n) ==
    IF n = 0 THEN << >>
    ELSE IF n = 1 THEN << 0 >>
    ELSE LET prev == CumSum(st, n - 1)
         IN  Append(prev, prev[n - 1] + st[n - 1])

InitSegment ==
    /\ pc = "seg_edges"
    /\ \E n \in 1..MaxBins :
          /\ amp \in [1..n -> AmpVals]
          /\ \E st \in [1..(n - 1) -> BinSteps] : time_bins = CumSum(st, n)
    /\ min_syl_dur \in 0..MaxDur
    /\ min_silent_dur \in 0..MaxDur
    /\ onsets = << >> /\ offsets = << >> /\ spect = << >>
    /\ MsIdle /\ EsIdle

\* lines 96-102, when every edge index is inside time_bins
Seg_Edges ==
    /\ pc = "seg_edges"
    /\ IdxInRange(time_bins, OnsetInds(amp, threshold))
    /\ IdxInRange(time_bins, OffsetInds(amp, threshold))
    /\ onsets' = TakeIdx(time_bins, OnsetInds(amp, threshold))
    /\ offsets' = TakeIdx(time_bins, OffsetInds(amp, threshold))
    /\ pc' = "seg_gaps"
    /\ UNCHANGED << spect, time_bins >>
    /\ UNCHANGED msVars /\ UNCHANGED segVars /\ UNCHANGED esVars

\* lines 100-102, when an edge index is outside time_bins: IndexError
Seg_IndexError ==
    /\ pc = "seg_edges"
    /\ \/ ~IdxInRange(time_bins, OnsetInds(amp, threshold))
       \/ ~IdxInRange(time_bins, OffsetInds(amp, threshold))
    /\ pc' = "seg_IndexError"
    /\ UNCHANGED << spect, time_bins, onsets, offsets >>
    /\ UNCHANGED msVars /\ UNCHANGED segVars /\ UNCHANGED esVars

\* lines 104-108: the gap step
Seg_Gaps ==
    /\ pc = "seg_gaps"
    /\ LET keep_these == KeepGaps(onsets, offsets, min_silent_dur)
       IN  /\ onsets' = TakeIdx(onsets, keep_these)
           /\ offsets' = TakeIdx(offsets, keep_these)
    /\ pc' = "seg_durs"
    /\ UNCHANGED << spect, time_bins >>
    /\ UNCHANGED msVars /\ UNCHANGED segVars /\ UNCHANGED esVars

\* lines 110-116: the duration filter and the return
Seg_Durs ==
    /\ pc = "seg_durs"
    /\ LET keep_these == KeepDurs(onsets, offsets, min_syl_dur)
       IN  /\ onsets' = TakeIdx(onsets, keep_these)
           /\ offsets' = TakeIdx(offsets, keep_these)
    /\ pc' = "seg_done"
    /\ UNCHANGED << spect, time_bins >>
    /\ UNCHANGED msVars /\ UNCHANGED segVars /\ UNCHANGED esVars

NextSegment == Seg_Edges \/ Seg_IndexError \/ Seg_Gaps \/ Seg_Durs

SpecSegment == InitSegment /\ [][NextSegment]_vars

(***************************************************************************)
(* extract_syls                                                            *)
(***************************************************************************)
SampFreqs == {32000, 44100}     \* sampling frequencies of recordings
LabelChars == {"a", "b", "x"}   \* characters of notmat['labels']

\* a Python str and a Python list of characters: equal only to their own kind
PyStr(cs) == [type |-> "str", elems |-> cs]
PyList(cs) == [type |-> "list", elems |-> cs]

All == PyStr(<< "a", "l", "l" >>)

LabelsToUseArgs == {All, PyStr(<< "a", "b" >>), PyStr(<< "x" >>)}

\* lines 150-154: a string other than 'all' becomes the list of its characters
NormLabelsToUse(ltu) ==
    IF ltu # All
    THEN IF ltu.type = "str" THEN PyList(ltu.elems) ELSE ltu
    ELSE ltu

\* "label in labels_to_use"
PyIn(label, ltu) == \E i \in 1..Len(ltu.elems) : ltu.elems[i] = label

\* Selected without the 'all' sentinel
SelectedNoSentinel(ltu, label) == PyIn(label, ltu)

\* lines 182-185: is segment ind extracted, and with which label
Selected(ltu, label) == ltu = All \/ PyIn(label, ltu)
EmittedLabel(ltu, label) == IF ltu = All THEN None ELSE label

\* np.argmin(np.abs(tb - t)): the first index (0-based) of the least distance
ArgminAbs(tb, t) ==
    CHOOSE k \in 0..(Len(tb) - 1) :
        /\ \A j \in 0..(Len(tb) - 1) : Abs(tb[k + 1] - t) <= Abs(tb[j + 1] - t)
        /\ \A j \in 0..(k - 1) : Abs(tb[j + 1] - t) > Abs(tb[k + 1] - t)

\* a[start:stop] of Python for a sequence a: a negative bound counts from the
\* end, and both bounds are clipped to 0..len(a)
SliceBound(n, i) ==
    IF i < 0 THEN (IF i + n < 0 THEN 0 ELSE i + n)
    ELSE IF i > n THEN n ELSE i

PySlice(a, start, stop) ==
    LET lo == SliceBound(Len(a), start)
        hi == SliceBound(Len(a), stop)
    IN  IF lo < hi THEN SubSeq(a, lo + 1, hi) ELSE << >>

\* int(round(x / 2)) of Python 3: round half to even
RoundHalf(x) ==
    LET q == x \div 2
    IN  IF x % 2 = 0 THEN q
        ELSE IF q % 2 = 0 THEN q ELSE q + 1

\* line 187
WidthDiff(sp, w, on, off) == w - Len(PySlice(sp, on, off))

\* line 192: left_width before the boundary clamps
LeftWidth0(wd) == RoundHalf(wd)

\* RightWidth0 as the same half as the left one
RightWidthSameHalf(wd) == RoundHalf(wd)

\* line 193: right_width before the boundary clamps
RightWidth0(wd) == wd - RoundHalf(wd)

\* lines 194-196
LeftClamp(wd, on) == LeftWidth0(wd) > on
\* lines 197-199
RightClamp(wd, on, off, ncols) ==
    ~LeftClamp(wd, on) /\ off + RightWidth0(wd) > ncols

\* lines 192-199: left_width after the clamps
LeftWidth(wd, on, off, ncols) ==
    IF LeftClamp(wd, on) THEN on
    ELSE IF RightClamp(wd, on, off, ncols) THEN wd - (ncols - off)
    ELSE LeftWidth0(wd)

\* lines 192-199: right_width after the clamps
RightWidth(wd, on, off, ncols) ==
    IF LeftClamp(wd, on) THEN wd - on
    ELSE IF RightClamp(wd, on, off, ncols) THEN ncols - off
    ELSE RightWidth0(wd)

\* lines 186-201: the spectrogram emitted for a segment
SylSpect(sp, w, on, off) ==
    LET wd == WidthDiff(sp, w, on, off)
    IN  PySlice(sp, on - LeftWidth(wd, on, off, Len(sp)),
                    off + RightWidth(wd, on, off, Len(sp)))

RECURSIVE SegTimes(_, _, _)
\* the onsets and offsets <<on1, off1, on2, off2, ...>> of n segments in
\* chronological order, out of lo..tmax: onset < offset of a segment,
\* offset <= onset of the next
SegTimes(n, lo, tmax) ==
    IF n = 0 THEN {<< >>}
    ELSE UNION {UNION {{<< a, b >> \o rest : rest \in SegTimes(n - 1, b, tmax)} :
                       b \in (a + 1)..tmax} :
                a \in lo..tmax}

InitExtract ==
    /\ pc = "es_start"
    /\ fs \in SampFreqs
    /\ samp_freq \in SampFreqs
    /\ labels_to_use \in LabelsToUseArgs
    /\ syl_spect_width \in 1..MaxWidth
    /\ labels = << >> /\ onsets = << >> /\ offsets = << >>
    /\ onsets_time_bins = << >> /\ offsets_time_bins = << >> /\ ind = 0
    /\ all_syl_labels = << >> /\ all_syl_spects = << >> /\ calls = << >>
    /\ spect = << >> /\ time_bins = << >>
    /\ MsIdle /\ SegIdle

\* lines 150-158: normalise labels_to_use, empty results, first load_cbin
ES_Start ==
    /\ pc = "es_start"
    /\ labels_to_use' = NormLabelsToUse(labels_to_use)
    /\ all_syl_labels' = << >>
    /\ all_syl_spects' = << >>
    /\ calls' = Append(calls, "load_cbin")
    /\ pc' = "es_check"
    /\ UNCHANGED << fs, samp_freq, syl_spect_width, labels, onsets_time_bins,
                    offsets_time_bins, ind, spect, time_bins, onsets, offsets >>
    /\ UNCHANGED msVars /\ UNCHANGED segVars

\* FsMismatch with the test left out
FsNeverMismatch(f, expected) == FALSE

\* the test of line 159
FsMismatch(f, expected) == f # expected

\* lines 159-164: the sampling frequencies differ, ValueError
ES_Raise ==
    /\ pc = "es_check"
    /\ FsMismatch(fs, samp_freq)
    /\ pc' = "es_ValueError"
    /\ UNCHANGED << spect, time_bins, onsets, offsets >>
    /\ UNCHANGED msVars /\ UNCHANGED segVars /\ UNCHANGED esVars

\* lines 159, 165-170: second load_cbin and the spectrogram; the spectrogram
\* has one column per time bin, the bins 1 ms apart from 1 ms on
ES_MakeSpect ==
    /\ pc = "es_check"
    /\ ~FsMismatch(fs, samp_freq)
    /\ calls' = calls \o << "load_cbin", "make_spect" >>
    /\ \E ncols \in 1..MaxCols :
          /\ spect' = [k \in 1..ncols |-> k - 1]
          /\ time_bins' = [k \in 1..ncols |-> k]
    /\ pc' = "es_notmat"
    /\ UNCHANGED << fs, samp_freq, labels_to_use, syl_spect_width, labels,
                    onsets_time_bins, offsets_time_bins, ind, all_syl_labels,
                    all_syl_spects, onsets, offsets >>
    /\ UNCHANGED msVars /\ UNCHANGED segVars

\* lines 172-179: read the labels and find the bin of every onset and offset;
\* the labelled times are whole milliseconds from 0 to the last time bin
ES_LoadNotmat ==
    /\ pc = "es_notmat"
    /\ calls' = Append(calls, "load_notmat")
    /\ \E n \in 0..MaxSyls :
          /\ labels' \in [1..n -> LabelChars]
          /\ \E t \in SegTimes(n, 0, Len(time_bins)) :
                /\ onsets' = [i \in 1..n |-> t[2 * i - 1]]
                /\ offsets' = [i \in 1..n |-> t[2 * i]]
    /\ onsets_time_bins' =
          [i \in 1..Len(onsets') |-> ArgminAbs(time_bins, onsets'[i])]
    /\ offsets_time_bins' =
          [i \in 1..Len(offsets') |-> ArgminAbs(time_bins, offsets'[i])]
    /\ ind' = 0
    /\ pc' = "es_loop"
    /\ UNCHANGED << fs, samp_freq, labels_to_use, syl_spect_width,
                    all_syl_labels, all_syl_spects, spect, time_bins >>
    /\ UNCHANGED msVars /\ UNCHANGED segVars

\* lines 181-185: a segment whose label is not asked for
ES_Skip ==
    /\ pc = "es_loop"
    /\ ind < Len(labels)
    /\ ~Selected(labels_to_use, labels[ind + 1])
    /\ ind' = ind + 1
    /\ UNCHANGED << pc, fs, samp_freq, labels_to_use, syl_spect_width, labels,
                    onsets_time_bins, offsets_time_bins, all_syl_labels,
                    all_syl_spects, calls, spect, time_bins, onsets, offsets >>
    /\ UNCHANGED msVars /\ UNCHANGED segVars

\* lines 181-203: a segment that is extracted
ES_Extract ==
    /\ pc = "es_loop"
    /\ ind < Len(labels)
    /\ Selected(labels_to_use, labels[ind + 1])
    /\ all_syl_labels' =
          Append(all_syl_labels, EmittedLabel(labels_to_use, labels[ind + 1]))
    /\ all_syl_spects' =
          Append(all_syl_spects,
                 SylSpect(spect, syl_spect_width, onsets_time_bins[ind + 1],
                          offsets_time_bins[ind + 1]))
    /\ ind' = ind + 1
    /\ UNCHANGED << pc, fs, samp_freq, labels_to_use, syl_spect_width, labels,
                    onsets_time_bins, offsets_time_bins, calls, spect,
                    time_bins, onsets, offsets >>
    /\ UNCHANGED msVars /\ UNCHANGED segVars

\* line 205
ES_Return ==
    /\ pc = "es_loop"
    /\ ind = Len(labels)
    /\ pc' = "es_done"
    /\ UNCHANGED << spect, time_bins, onsets, offsets >>
    /\ UNCHANGED msVars /\ UNCHANGED segVars /\ UNCHANGED esVars

NextExtract ==
    \/ ES_Start \/ ES_Raise \/ ES_MakeSpect \/ ES_LoadNotmat
    \/ ES_Skip \/ ES_Extract \/ ES_Return

SpecExtract == InitExtract /\ [][NextExtract]_vars

(***************************************************************************)
(* Properties of make_spect                                                *)
(***************************************************************************)
StrictlyIncreasing(q) == \A i \in 1..(Len(q) - 1) : q[i] < q[i + 1]

\* the rows of the power grid inside the cutoffs, in the order of the raw axis
RetainedRows == FInds(RfftFreq(size, sampfreq), freq_cutoffs)

LogRow(row) == [c \in 1..Len(row) |-> Log10(row[c])]

\* C1: when the raw frequency axis is strictly increasing and at least two
\* frequencies fall inside the cutoffs, the frequency axis make_spect returns
\* is strictly increasing and row 0 of the returned spectrogram is the row of
\* the lowest retained frequency.
C1_AxisAscending ==
    (/\ pc = "ms_done"
     /\ StrictlyIncreasing(RfftFreq(size, sampfreq))
     /\ Len(RetainedRows) >= 2)
    => /\ StrictlyIncreasing(freq_bins)
       /\ freq_bins[1] = RfftFreq(size, sampfreq)[RetainedRows[1] + 1]
       /\ spect[1] = LogRow(psd[RetainedRows[1] + 1])

(***************************************************************************)
(* Properties of segment_song                                              *)
(***************************************************************************)
SegReturned == pc = "seg_done"

\* the above-threshold runs before any filtering
RawOnsets == TakeIdx(time_bins, OnsetInds(amp, threshold))
RawOffsets == TakeIdx(time_bins, OffsetInds(amp, threshold))

\* C2: when segment_song returns, onsets and offsets have equal length and
\* every returned segment ends after it starts and lasts longer than
\* min_syl_dur.
C2_SegmentsLongEnough ==
    SegReturned =>
        /\ Len(onsets) = Len(offsets)
        /\ \A i \in 1..Len(onsets) :
              /\ offsets[i] > onsets[i]
              /\ offsets[i] - onsets[i] > min_syl_dur

C2_Witness ==
    /\ SegReturned
    /\ Len(onsets) >= 1
    /\ min_syl_dur >= 1
    /\ Len(onsets) < Len(KeepGaps(RawOnsets, RawOffsets, min_silent_dur))

\* C3: when segment_song returns, consecutive returned segments are separated
\* by a silent gap longer than min_silent_dur.
C3_GapsLongEnough ==
    SegReturned =>
        \A i \in 2..Len(onsets) : onsets[i] - offsets[i - 1] > min_silent_dur

C3_Witness ==
    /\ SegReturned
    /\ Len(onsets) >= 2
    /\ min_silent_dur >= 1

\* is the silent gap after raw run j shorter than min_silent_dur
ShortGapAfter(j) ==
    j < Len(RawOnsets) /\ RawOnsets[j + 1] - RawOffsets[j] < min_silent_dur

HasSegment(on, off) ==
    \E i \in 1..Len(onsets) : onsets[i] = on /\ offsets[i] = off

\* C4: two consecutive raw runs separated by a gap shorter than min_silent_dur
\* come out as one segment from the first run's onset to the second run's
\* offset, when the merged duration exceeds min_syl_dur.  Stated for a pair of
\* runs whose neighbouring gaps are not short, where the merged segment is
\* exactly that one.
C4_ShortGapMerges ==
    SegReturned =>
        \A j \in 1..(Len(RawOnsets) - 1) :
            (/\ ShortGapAfter(j)
             /\ ~ShortGapAfter(j + 1)
             /\ (j > 1 => ~ShortGapAfter(j - 1))
             /\ RawOffsets[j + 1] - RawOnsets[j] > min_syl_dur)
            => HasSegment(RawOnsets[j], RawOffsets[j + 1])

\* the raw runs the gap step passes on according to C8: all but those
\* followed by a short gap
RECURSIVE PassedOn(_)
PassedOn(j) ==
    IF j > Len(RawOnsets) THEN << >>
    ELSE IF ShortGapAfter(j) THEN PassedOn(j + 1)
         ELSE << j - 1 >> \o PassedOn(j + 1)

\* C8: the gap step removes exactly the raw pairs whose following gap is
\* shorter than min_silent_dur; every other raw pair, the last one included,
\* reaches the duration filter, so a run longer than min_syl_dur with no short
\* following gap is in the output.
C8_GapStepKeepsOthers ==
    /\ pc = "seg_durs" =>
          /\ onsets = TakeIdx(RawOnsets, PassedOn(1))
          /\ offsets = TakeIdx(RawOffsets, PassedOn(1))
    /\ SegReturned =>
          \A j \in 1..Len(RawOnsets) :
              (~ShortGapAfter(j) /\ RawOffsets[j] - RawOnsets[j] > min_syl_dur)
              => HasSegment(RawOnsets[j], RawOffsets[j])

\* C9: every edge index segment_song reads time_bins at lies in 0..N-1, so
\* the function returns without an out-of-range failure, also when the first
\* or the last sample is above the threshold.
C9_EdgeIndicesInRange ==
    pc # "seg_edges" =>
        /\ pc # "seg_IndexError"
        /\ \A i \in 1..Len(OnsetInds(amp, threshold)) :
              OnsetInds(amp, threshold)[i] \in 0..(Len(time_bins) - 1)
        /\ \A i \in 1..Len(OffsetInds(amp, threshold)) :
              OffsetInds(amp, threshold)[i] \in 0..(Len(time_bins) - 1)

(***************************************************************************)
(* Properties of extract_syls                                              *)
(***************************************************************************)
NumCols == Len(spect)

\* the characters asked for, whichever form labels_to_use has
WantedChars == {labels_to_use.elems[i] : i \in 1..Len(labels_to_use.elems)}

RECURSIVE WantedSegs(_, _)
\* the segments (0-based) among the first n that are to be extracted: every
\* segment under 'all', else those whose label is a wanted character
WantedSegs(from, n) ==
    IF from > n THEN << >>
    ELSE IF labels_to_use = All \/ labels[from] \in WantedChars
         THEN << from - 1 >> \o WantedSegs(from + 1, n)
         ELSE WantedSegs(from + 1, n)

\* the segment (0-based) the j-th emitted syllable was cut from
SegOf(j) == WantedSegs(1, ind)[j]
OnIdx(j) == onsets_time_bins[SegOf(j) + 1]
OffIdx(j) == offsets_time_bins[SegOf(j) + 1]
WidthDiffOf(j) == syl_spect_width - (OffIdx(j) - OnIdx(j))

EsInLoop == pc \in {"es_loop", "es_done"}

\* neither boundary clamp fires for the j-th emitted syllable
NoClamp(j) ==
    /\ OnIdx(j) <= OffIdx(j)
    /\ LeftWidth0(WidthDiffOf(j)) <= OnIdx(j)
    /\ OffIdx(j) + RightWidth0(WidthDiffOf(j)) <= NumCols

\* C5: an emitted syllable whose onset bin is not after its offset bin and
\* for which neither boundary clamp fires has exactly syl_spect_width columns,
\* padded or cropped.
C5_ExactWidth ==
    EsInLoop =>
        \A j \in 1..Len(all_syl_spects) :
            NoClamp(j) => Len(all_syl_spects[j]) = syl_spect_width

\* one syllable padded and one cropped, neither clamped
C5_Witness ==
    /\ EsInLoop
    /\ \E j \in 1..Len(all_syl_spects) : NoClamp(j) /\ WidthDiffOf(j) > 0
    /\ \E j \in 1..Len(all_syl_spects) : NoClamp(j) /\ WidthDiffOf(j) < 0

C7_MismatchRaisesFirst ==
    /\ fs # samp_freq =>
          /\ pc \in {"es_start", "es_check", "es_ValueError"}
          /\ \A i \in 1..Len(calls) : calls[i] = "load_cbin"
          /\ all_syl_spects = << >> /\ all_syl_labels = << >>
    /\ fs = samp_freq => pc # "es_ValueError"

C7_Witness ==
    /\ pc = "es_ValueError"
    /\ fs = 44100 /\ samp_freq = 32000
    /\ calls = << "load_cbin" >>

\* the columns of the j-th emitted syllable
ColsOf(j) == {all_syl_spects[j][c] : c \in 1..Len(all_syl_spects[j])}

\* C10: for an emitted syllable with 0 <= onset bin <= offset bin <= number of
\* columns and syl_spect_width > 0, the start of the slice after the boundary
\* clamps is not negative, and when width_diff >= 0 the slice contains the
\* segment's own columns.
C10_SliceHoldsSegment ==
    EsInLoop =>
        \A j \in 1..Len(all_syl_spects) :
            (/\ 0 <= OnIdx(j) /\ OnIdx(j) <= OffIdx(j) /\ OffIdx(j) <= NumCols
             /\ syl_spect_width > 0)
            => /\ OnIdx(j) - LeftWidth(WidthDiffOf(j), OnIdx(j), OffIdx(j),
                                       NumCols) >= 0
               /\ WidthDiffOf(j) >= 0 =>
                     \A c \in OnIdx(j)..(OffIdx(j) - 1) : c \in ColsOf(j)

=============================================================================
